---------------------------- MODULE Spec2Model ----------------------------
(***************************************************************************)
(* Model of the quote store of astrbot_plugin_quote_core.                  *)
(*                                                                         *)
(*   src/dao.py   QuoteStore: record list _cache, duplicate index _index,  *)
(*                backing file quotes.json                                 *)
(*   src/main.py  QuoteStore: record list _quotes, backing file            *)
(*                                                                         *)
(* Python values are tagged: a str is a sequence of one-character strings, *)
(* so that strip() and the f-string key "{group}_{text}" are computed and  *)
(* not assumed.                                                            *)
(***************************************************************************)
EXTENDS Integers, Sequences, FiniteSets, TLC

VARIABLES
    cache,    \* dao.QuoteStore._cache : list of record dicts
    index,    \* dao.QuoteStore._index : set of key strings
    file,     \* content of <data_dir>/quotes.json of the dao store
    quotes,   \* main.QuoteStore._quotes : list of record dicts
    qfile,    \* content of <root>/quotes.json of the main store
    store,    \* which QuoteStore class was constructed: "dao" or "main"
    last,     \* the last call made on the store: operation, arguments, outcome
    pc,       \* per task: the call it is running, where it stands, its outcome
    lock,     \* QuoteStore._lock: the task holding it, 0 when free
    tmp,      \* per task: the quotes_*.tmp file its _save created in data_dir
    alive,    \* FALSE once the process has been stopped
    config,   \* QuotesPlugin.config: blacklist, delete_permission, global_mode
    pending_qid,    \* QuotesPlugin._pending_qid: session key -> quote id
    last_sent_qid,  \* QuotesPlugin._last_sent_qid: session key -> quote id
    sent      \* the quote messages the bot has sent: (session key, quote id)

vars ==
    <<cache, index, file, quotes, qfile, store, last, pc, lock, tmp, alive,
      config, pending_qid, last_sent_qid, sent>>
daoVars == <<cache, index, file>>
mainVars == <<quotes, qfile>>
taskVars == <<pc, lock, tmp, alive>>
pluginVars == <<config, pending_qid, last_sent_qid, sent>>

---------------------------------------------------------------------------
(* Bounds of the model.                                                    *)

MaxQuotes == 2      \* longest record list explored
MaxTasks == 2       \* number of tasks that call the store concurrently

---------------------------------------------------------------------------
(* Python values.                                                          *)

Str(s) == [t |-> "str", v |-> s]
\* an int, kept as its decimal digits
Int10(d) == [t |-> "int", v |-> d]
None == [t |-> "none", v |-> <<>>]

IsNone(x) == x.t = "none"

\* str(x): a str is itself, None prints as "None"
PyStr(x) ==
    IF x.t \in {"str", "int"} THEN x.v
    ELSE <<"N", "o", "n", "e">>

\* truthiness of a str or None: empty string and None are false
Truthy(x) ==
    \/ x.t = "str" /\ x.v # <<>>
    \/ x.t = "int" /\ x.v # <<"0">>

\* x or d
OrElse(x, d) == IF Truthy(x) THEN x ELSE d

IsSpace(c) == c = " "

RECURSIVE LStrip(_)
LStrip(s) ==
    IF s = <<>> THEN <<>>
    ELSE IF IsSpace(Head(s)) THEN LStrip(Tail(s))
    ELSE s

RECURSIVE RStrip(_)
RStrip(s) ==
    IF s = <<>> THEN <<>>
    ELSE IF IsSpace(s[Len(s)]) THEN RStrip(SubSeq(s, 1, Len(s) - 1))
    ELSE s

\* str.strip()
Strip(s) == RStrip(LStrip(s))

\* dict.get(k, d)
Get(d, k, dflt) == IF k \in DOMAIN d THEN d[k] ELSE dflt

RECURSIVE SortedSeq(_)
SortedSeq(S) ==
    IF S = {} THEN <<>>
    ELSE LET m == CHOOSE x \in S : \A y \in S : x <= y
         IN <<m>> \o SortedSeq(S \ {m})

Range(f) == {f[i] : i \in DOMAIN f}

\* the elements of xs at the positions in S, in list order
Select(xs, S) ==
    LET ps == SortedSeq(S)
    IN [k \in 1..Len(ps) |-> xs[ps[k]]]

\* sequences over S of length at most n
SeqsUpTo(S, n) == UNION {[1..k -> S] : k \in 0..n}

\* orderings of k distinct elements of S
Arrangements(S, k) ==
    {p \in [1..k -> S] : \A i, j \in 1..k : i # j => p[i] # p[j]}

Min(a, b) == IF a <= b THEN a ELSE b

---------------------------------------------------------------------------
(* src/model.py: the Quote dataclass of the dao store.                     *)

QuoteFields ==
    {"id", "qq", "name", "text", "created_by", "created_at", "group", "ai_reason"}

\* fields without a default value
QuoteRequired ==
    {"id", "qq", "name", "text", "created_by", "created_at", "group"}

Quote(id, qq, text, created_at, group) ==
    [id |-> id, qq |-> qq, name |-> Str(<<"n">>), text |-> text,
     created_by |-> Str(<<"u">>), created_at |-> created_at,
     group |-> group, ai_reason |-> None]

\* dataclasses.asdict(quote)
asdict(q) == [k \in DOMAIN q |-> q[k]]

---------------------------------------------------------------------------
(* Outcome of a call.                                                      *)

Return(v) == [kind |-> "return", val |-> v]
Raise(e) == [kind |-> "raise", val |-> e]

Call(op, args, ret, pos, saved) ==
    [op |-> op, args |-> args, ret |-> ret, pos |-> pos, saved |-> saved]

---------------------------------------------------------------------------
(* src/dao.py: QuoteStore.                                                 *)

\* content of the backing file
NoFile == [kind |-> "missing", quotes |-> <<>>]
BadFile == [kind |-> "invalid", quotes |-> <<>>]
JsonFile(qs) == [kind |-> "object", quotes |-> qs]
\* valid JSON that is not an object, such as [1, 2]
ArrayFile == [kind |-> "array", quotes |-> <<>>]
\* the object {} without a "quotes" key
NoQuotesFile == [kind |-> "no-quotes", quotes |-> <<>>]
\* an object whose "quotes" is the value v, not a list: null, a string
NonListFile(v) == [kind |-> "non-list", quotes |-> <<v>>]

\* _load: a missing file and a failure of json.loads or of data.get give the
\* empty list, a missing key gives the default [], and whatever is stored
\* under "quotes" is returned as it is
load(f) ==
    IF f.kind = "object" THEN f.quotes
    ELSE IF f.kind = "non-list" THEN f.quotes[1]
    ELSE <<>>

\* an element of the loaded list that has a get method
IsDict(q) == "t" \notin DOMAIN q

\* what "for q in self._cache: q.get(...)" of _rebuild_index raises, if anything
rebuild_raises(f) ==
    IF f.kind = "non-list"
    THEN IF IsNone(load(f)) THEN "TypeError"
         ELSE IF load(f).v # <<>> THEN "AttributeError" ELSE "no"
    ELSE IF \E i \in DOMAIN load(f) : ~IsDict(load(f)[i])
    THEN "AttributeError" ELSE "no"

\* f"{gid}_{txt}"
Key(gid, txt) == gid \o <<"_">> \o txt

\* _rebuild_index: only records with non-empty group and non-empty text
rebuild_index(c) ==
    {Key(PyStr(Get(c[i], "group", Str(<<>>))),
         Strip(PyStr(Get(c[i], "text", Str(<<>>))))) :
        i \in {j \in DOMAIN c :
                  /\ PyStr(Get(c[j], "group", Str(<<>>))) # <<>>
                  /\ Strip(PyStr(Get(c[j], "text", Str(<<>>)))) # <<>>}}

\* _save: the whole list is serialised to a temporary file that replaces
\* quotes.json; this is the outcome when the write and the rename succeed
save(c) == JsonFile(c)

\* _safe_to_quote: keep the known fields, then Quote(**clean_data)
CanQuote(d) == QuoteRequired \subseteq DOMAIN d

safe_to_quote(d) ==
    [k \in QuoteFields |-> IF k \in DOMAIN d THEN d[k] ELSE None]

\* a group filter that lets every record through
GroupPassesAll(q, group_id) == TRUE

\* the filter of get_random / get_random_batch / get_user_quotes on group
GroupPasses(q, group_id) ==
    IsNone(group_id) \/ PyStr(Get(q, "group", None)) = PyStr(group_id)

\* an author filter that lets every record through
QQPassesAll(q, qq) == TRUE

QQPasses(q, qq) == PyStr(Get(q, "qq", None)) = PyStr(qq)

\* check_exists that forgets to strip the text
check_exists_raw(group_id, text) ==
    /\ last' = Call("check_exists", <<group_id, text>>,
                     Return(Key(PyStr(group_id), text.v) \in index),
                     <<>>, FALSE)
    /\ UNCHANGED <<daoVars, mainVars, store, pluginVars, taskVars>>

check_exists(group_id, text) ==
    /\ last' = Call("check_exists", <<group_id, text>>,
                     Return(Key(PyStr(group_id), Strip(text.v)) \in index),
                     <<>>, FALSE)
    /\ UNCHANGED <<daoVars, mainVars, store, pluginVars, taskVars>>

\* add_quote that persists the list as it was before the append
add_quote_unsaved(quote) ==
    /\ Len(cache) < MaxQuotes
    /\ cache' = Append(cache, asdict(quote))
    /\ index' = index \cup {Key(PyStr(quote.group), Strip(quote.text.v))}
    /\ file' = save(cache)
    /\ last' = Call("add_quote", <<quote>>, Return(None), <<>>, TRUE)
    /\ UNCHANGED <<mainVars, store, pluginVars, taskVars>>

add_quote(quote) ==
    /\ Len(cache) < MaxQuotes
    /\ cache' = Append(cache, asdict(quote))
    /\ index' = index \cup {Key(PyStr(quote.group), Strip(quote.text.v))}
    /\ file' = save(cache')
    /\ last' = Call("add_quote", <<quote>>, Return(None), <<>>, TRUE)
    /\ UNCHANGED <<mainVars, store, pluginVars, taskVars>>

get_random(group_id, qq) ==
    LET candidates ==
            {i \in DOMAIN cache :
                /\ GroupPasses(cache[i], group_id)
                /\ (IsNone(qq) \/ QQPasses(cache[i], qq))}
    IN /\ IF candidates = {}
          THEN last' = Call("get_random", <<group_id, qq>>, Return(None),
                            <<>>, FALSE)
          ELSE \E i \in candidates :
                  last' = Call("get_random", <<group_id, qq>>,
                               IF CanQuote(cache[i])
                               THEN Return(safe_to_quote(cache[i]))
                               ELSE Raise("TypeError"),
                               <<i>>, FALSE)
       /\ UNCHANGED <<daoVars, mainVars, store, pluginVars, taskVars>>

\* get_random_batch that takes the picked records out of the list
get_random_batch_pop(group_id, count) ==
    LET candidates == {i \in DOMAIN cache : GroupPasses(cache[i], group_id)}
        sample_size == Min(Cardinality(candidates), count)
    IN IF candidates = {} \/ sample_size < 0
       THEN /\ last' = Call("get_random_batch", <<group_id, count>>,
                            Return(<<>>), <<>>, FALSE)
            /\ UNCHANGED <<daoVars, mainVars, store, pluginVars, taskVars>>
       ELSE \E selected \in Arrangements(candidates, sample_size) :
               /\ last' = Call("get_random_batch", <<group_id, count>>,
                               Return([k \in DOMAIN selected |->
                                         safe_to_quote(cache[selected[k]])]),
                               selected, FALSE)
               /\ cache' = Select(cache, DOMAIN cache \ Range(selected))
               /\ UNCHANGED <<index, file, mainVars, store, pluginVars, taskVars>>

get_random_batch(group_id, count) ==
    LET candidates == {i \in DOMAIN cache : GroupPasses(cache[i], group_id)}
        sample_size == Min(Cardinality(candidates), count)
    IN /\ IF candidates = {}
          THEN last' = Call("get_random_batch", <<group_id, count>>,
                            Return(<<>>), <<>>, FALSE)
          ELSE IF sample_size < 0
          THEN \* random.sample rejects a negative sample size
               last' = Call("get_random_batch", <<group_id, count>>,
                            Raise("ValueError"), <<>>, FALSE)
          ELSE \E selected \in Arrangements(candidates, sample_size) :
                  last' = Call("get_random_batch", <<group_id, count>>,
                               IF \A k \in DOMAIN selected :
                                      CanQuote(cache[selected[k]])
                               THEN Return([k \in DOMAIN selected |->
                                              safe_to_quote(cache[selected[k]])])
                               ELSE Raise("TypeError"),
                               selected, FALSE)
       /\ UNCHANGED <<daoVars, mainVars, store, pluginVars, taskVars>>

get_user_quotes(group_id, qq) ==
    LET hits == {i \in DOMAIN cache :
                    /\ GroupPasses(cache[i], group_id)
                    /\ QQPasses(cache[i], qq)}
        res == SortedSeq(hits)
    IN /\ last' = Call("get_user_quotes", <<group_id, qq>>,
                        IF \A i \in hits : CanQuote(cache[i])
                        THEN Return([k \in DOMAIN res |->
                                       safe_to_quote(cache[res[k]])])
                        ELSE Raise("TypeError"),
                        res, FALSE)
       /\ UNCHANGED <<daoVars, mainVars, store, pluginVars, taskVars>>

\* delete_quote that removes only the first record with the id
delete_quote_first(qid) ==
    LET hits == {i \in DOMAIN cache : Get(cache[i], "id", None) = qid}
        first == CHOOSE i \in hits : \A j \in hits : i <= j
    IN IF hits # {}
       THEN /\ cache' = Select(cache, DOMAIN cache \ {first})
            /\ index' = index \ {Key(PyStr(Get(cache[first], "group", Str(<<>>))),
                                      Strip(PyStr(Get(cache[first], "text", Str(<<>>)))))}
            /\ file' = save(cache')
            /\ last' = Call("delete_quote", <<qid>>, Return(TRUE), <<>>, TRUE)
            /\ UNCHANGED <<mainVars, store, pluginVars, taskVars>>
       ELSE /\ last' = Call("delete_quote", <<qid>>, Return(FALSE), <<>>, FALSE)
            /\ UNCHANGED <<daoVars, mainVars, store, pluginVars, taskVars>>

\* delete_quote that persists even when nothing was found
delete_quote_resave(qid) ==
    LET hits == {i \in DOMAIN cache : Get(cache[i], "id", None) = qid}
    IN /\ cache' = Select(cache, DOMAIN cache \ hits)
       /\ index' = index
       /\ file' = save(cache')
       /\ last' = Call("delete_quote", <<qid>>, Return(hits # {}), <<>>, TRUE)
       /\ UNCHANGED <<mainVars, store, pluginVars, taskVars>>

delete_quote(qid) ==
    LET hits == {i \in DOMAIN cache : Get(cache[i], "id", None) = qid}
        first == CHOOSE i \in hits : \A j \in hits : i <= j
    IN IF hits # {} /\ DOMAIN cache[first] # {}
       THEN LET to_delete == cache[first]
                gid == PyStr(Get(to_delete, "group", Str(<<>>)))
                txt == Strip(PyStr(Get(to_delete, "text", Str(<<>>))))
            IN /\ cache' = Select(cache, DOMAIN cache \ hits)
               /\ index' = index \ {Key(gid, txt)}
               /\ file' = save(cache')
               /\ last' = Call("delete_quote", <<qid>>, Return(TRUE), <<>>, TRUE)
               /\ UNCHANGED <<mainVars, store, pluginVars, taskVars>>
       ELSE /\ last' = Call("delete_quote", <<qid>>, Return(FALSE), <<>>, FALSE)
            /\ UNCHANGED <<daoVars, mainVars, store, pluginVars, taskVars>>

---------------------------------------------------------------------------
(* src/main.py: QuoteStore.                                                *)

MainQuoteFields ==
    {"id", "qq", "name", "text", "created_by", "created_at", "images", "group"}

MainQuoteRequired == {"id", "qq", "name", "text", "created_by", "created_at"}

MainQuote(id, qq, text, created_at, group) ==
    [id |-> id, qq |-> qq, name |-> Str(<<"n">>), text |-> text,
     created_by |-> Str(<<"u">>), created_at |-> created_at,
     images |-> <<>>, group |-> group]

\* _write: the file is rewritten with the whole list (the write succeeds)
write(qs) == JsonFile(qs)

\* _read().get("quotes", []): a missing or unparsable file reads as no quotes
read(f) == IF f.kind = "object" THEN f.quotes ELSE <<>>

\* Quote(**obj): every key must be a field and every required field present
CanMainQuote(obj) ==
    /\ DOMAIN obj \subseteq MainQuoteFields
    /\ MainQuoteRequired \subseteq DOMAIN obj

ToMainQuote(obj) ==
    [k \in MainQuoteFields |->
        IF k \in DOMAIN obj THEN obj[k]
        ELSE IF k = "images" THEN <<>> ELSE Str(<<>>)]

MainGroupPasses(x, group_key) ==
    PyStr(OrElse(Get(x, "group", None), Str(<<>>))) = PyStr(group_key)

MainQQPasses(x, qq) ==
    PyStr(OrElse(Get(x, "qq", None), Str(<<>>))) = PyStr(qq)

add(q) ==
    /\ Len(quotes) < MaxQuotes
    /\ quotes' = Append(quotes, asdict(q))
    /\ qfile' = write(quotes')
    /\ last' = Call("add", <<q>>, Return(None), <<>>, TRUE)
    /\ UNCHANGED <<daoVars, store, pluginVars, taskVars>>

random_one(group_key) ==
    LET arr == IF IsNone(group_key) THEN DOMAIN quotes
               ELSE {i \in DOMAIN quotes : MainGroupPasses(quotes[i], group_key)}
    IN /\ IF arr = {}
          THEN last' = Call("random_one", <<group_key>>, Return(None), <<>>, FALSE)
          ELSE \E i \in arr :
                  last' = Call("random_one", <<group_key>>,
                               IF CanMainQuote(quotes[i])
                               THEN Return(ToMainQuote(quotes[i]))
                               ELSE Raise("TypeError"),
                               <<i>>, FALSE)
       /\ UNCHANGED <<daoVars, mainVars, store, pluginVars, taskVars>>

random_one_by_qq(qq, group_key) ==
    LET arr == IF IsNone(group_key)
               THEN {i \in DOMAIN quotes : MainQQPasses(quotes[i], qq)}
               ELSE {i \in DOMAIN quotes :
                        /\ MainQQPasses(quotes[i], qq)
                        /\ MainGroupPasses(quotes[i], group_key)}
    IN /\ IF arr = {}
          THEN last' = Call("random_one_by_qq", <<qq, group_key>>,
                            Return(None), <<>>, FALSE)
          ELSE \E i \in arr :
                  last' = Call("random_one_by_qq", <<qq, group_key>>,
                               IF CanMainQuote(quotes[i])
                               THEN Return(ToMainQuote(quotes[i]))
                               ELSE Raise("TypeError"),
                               <<i>>, FALSE)
       /\ UNCHANGED <<daoVars, mainVars, store, pluginVars, taskVars>>

delete_by_id(qid) ==
    LET kept == {i \in DOMAIN quotes :
                    PyStr(Get(quotes[i], "id", None)) # PyStr(qid)}
    IN IF Cardinality(kept) = Len(quotes)
       THEN /\ last' = Call("delete_by_id", <<qid>>, Return(FALSE), <<>>, FALSE)
            /\ UNCHANGED <<daoVars, mainVars, store, pluginVars, taskVars>>
       ELSE /\ quotes' = Select(quotes, kept)
            /\ qfile' = write(quotes')
            /\ last' = Call("delete_by_id", <<qid>>, Return(TRUE), <<>>, TRUE)
            /\ UNCHANGED <<daoVars, store, pluginVars, taskVars>>

---------------------------------------------------------------------------
(* src/dao.py: add_quote, delete_quote and _save, one step per statement,  *)
(* run by tasks of one event loop.                                         *)

Tasks == 1 .. MaxTasks

\* no quotes_*.tmp file of the task in data_dir
Absent == [kind |-> "absent", quotes |-> <<>>]
\* a temporary file that holds only part of the serialised text
Partial == [kind |-> "partial", quotes |-> <<>>]

\* a task that is not inside a call
NoCall ==
    [at |-> "idle", op |-> "none", arg |-> None, json |-> Absent,
     failed |-> "none", ret |-> Return(None)]

TasksIdle ==
    /\ pc = [t \in Tasks |-> NoCall]
    /\ lock = 0
    /\ tmp = [t \in Tasks |-> Absent]
    /\ alive = TRUE

\* the task moves on inside its call
Goto(t, at) == pc' = [pc EXCEPT ![t].at = at]

\* the call of the task ends with this outcome
Finish(t, ret) == pc' = [pc EXCEPT ![t].at = "done", ![t].ret = ret]

\* add_quote up to its await of _save: the list and the index are changed
call_add_quote(t, quote) ==
    /\ alive /\ pc[t].at = "idle"
    /\ cache' = Append(cache, asdict(quote))
    /\ index' = index \cup {Key(PyStr(quote.group), Strip(quote.text.v))}
    /\ pc' = [pc EXCEPT ![t] = [NoCall EXCEPT !.at = "save", !.op = "add_quote",
                                              !.arg = quote]]
    /\ UNCHANGED <<file, mainVars, store, pluginVars, last, lock, tmp, alive>>

\* delete_quote up to its await of _save, or to "return False"
call_delete_quote(t, qid) ==
    LET hits == {i \in DOMAIN cache : Get(cache[i], "id", None) = qid}
        first == CHOOSE i \in hits : \A j \in hits : i <= j
    IN /\ alive /\ pc[t].at = "idle"
       /\ IF hits # {} /\ DOMAIN cache[first] # {}
          THEN LET to_delete == cache[first]
                   gid == PyStr(Get(to_delete, "group", Str(<<>>)))
                   txt == Strip(PyStr(Get(to_delete, "text", Str(<<>>))))
               IN /\ cache' = Select(cache, DOMAIN cache \ hits)
                  /\ index' = index \ {Key(gid, txt)}
                  /\ pc' = [pc EXCEPT ![t] = [NoCall EXCEPT !.at = "save",
                                                            !.op = "delete_quote",
                                                            !.arg = qid]]
          ELSE /\ pc' = [pc EXCEPT ![t] = [NoCall EXCEPT !.at = "done",
                                                         !.op = "delete_quote",
                                                         !.arg = qid,
                                                         !.ret = Return(FALSE)]]
               /\ UNCHANGED <<cache, index>>
       /\ UNCHANGED <<file, mainVars, store, pluginVars, last, lock, tmp, alive>>

\* what add_quote and delete_quote return once _save has returned
Returns(op) ==
    IF op \in {"delete_quote", "delete_by_id"} THEN Return(TRUE) ELSE Return(None)

\* a _save that serialises and writes without waiting for the lock
save_nolock(t) ==
    /\ alive /\ pc[t].at = "save"
    /\ lock' = t
    /\ pc' = [pc EXCEPT ![t].at = "locked", ![t].json = JsonFile(cache)]
    /\ UNCHANGED <<daoVars, mainVars, store, pluginVars, last, tmp, alive>>

\* _save: "async with self._lock", then json.dumps of the list as it is now
save_lock(t) ==
    /\ alive /\ pc[t].at = "save"
    /\ lock = 0
    /\ lock' = t
    /\ pc' = [pc EXCEPT ![t].at = "locked", ![t].json = JsonFile(cache)]
    /\ UNCHANGED <<daoVars, mainVars, store, pluginVars, last, tmp, alive>>

\* _save: tempfile.mkstemp creates an empty quotes_*.tmp
save_mkstemp(t) ==
    /\ alive /\ pc[t].at = "locked"
    /\ tmp' = [tmp EXCEPT ![t] = Partial]
    /\ Goto(t, "created")
    /\ UNCHANGED <<daoVars, mainVars, store, pluginVars, last, lock, alive>>

\* _save: mkstemp raises, outside the try; the lock is released on the way out
save_mkstemp_raises(t) ==
    /\ alive /\ pc[t].at = "locked"
    /\ lock' = 0
    /\ pc' = [pc EXCEPT ![t].at = "done", ![t].failed = "mkstemp",
                        ![t].ret = Raise("OSError")]
    /\ UNCHANGED <<daoVars, mainVars, store, pluginVars, last, tmp, alive>>

\* a write that puts the text straight into quotes.json
save_write_inplace(t) ==
    /\ alive /\ pc[t].at = "created"
    /\ file' = pc[t].json
    /\ Goto(t, "written")
    /\ UNCHANGED <<cache, index, mainVars, store, pluginVars, last, lock, tmp, alive>>

\* _save: f.write(json_str) and the close of the temporary file
save_write(t) ==
    /\ alive /\ pc[t].at = "created"
    /\ tmp' = [tmp EXCEPT ![t] = pc[t].json]
    /\ Goto(t, "written")
    /\ UNCHANGED <<daoVars, mainVars, store, pluginVars, last, lock, alive>>

\* _save: the write raises and leaves part of the text in the temporary file
save_write_raises(t) ==
    /\ alive /\ pc[t].at = "created"
    /\ tmp' = [tmp EXCEPT ![t] = Partial]
    /\ pc' = [pc EXCEPT ![t].at = "except", ![t].failed = "write"]
    /\ UNCHANGED <<daoVars, mainVars, store, pluginVars, last, lock, alive>>

\* _save: tmp_path_obj.replace(self.file), then the lock is released and the
\* caller returns
save_replace(t) ==
    /\ alive /\ pc[t].at = "written"
    /\ file' = tmp[t]
    /\ tmp' = [tmp EXCEPT ![t] = Absent]
    /\ lock' = 0
    /\ Finish(t, Returns(pc[t].op))
    /\ UNCHANGED <<cache, index, mainVars, store, pluginVars, last, alive>>

\* _save: the rename raises; neither file is touched
save_replace_raises(t) ==
    /\ alive /\ pc[t].at = "written"
    /\ pc' = [pc EXCEPT ![t].at = "except", ![t].failed = "replace"]
    /\ UNCHANGED <<daoVars, mainVars, store, pluginVars, last, lock, tmp, alive>>

\* an except branch that re-raises without removing the temporary file
save_except_keep(t) ==
    /\ alive /\ pc[t].at = "except"
    /\ lock' = 0
    /\ Finish(t, Raise("OSError"))
    /\ UNCHANGED <<daoVars, mainVars, store, pluginVars, last, tmp, alive>>

\* an except branch that removes the temporary file and swallows the error
save_except_swallow(t) ==
    /\ alive /\ pc[t].at = "except"
    /\ tmp' = [tmp EXCEPT ![t] = Absent]
    /\ lock' = 0
    /\ Finish(t, Returns(pc[t].op))
    /\ UNCHANGED <<daoVars, mainVars, store, pluginVars, last, alive>>

\* _save: "except Exception": os.remove(tmp_path) if it exists, "raise e";
\* the error passes through add_quote / delete_quote to the caller
save_except(t) ==
    /\ alive /\ pc[t].at = "except"
    /\ tmp' = [tmp EXCEPT ![t] = Absent]
    /\ lock' = 0
    /\ Finish(t, Raise("OSError"))
    /\ UNCHANGED <<daoVars, mainVars, store, pluginVars, last, alive>>

\* the process is stopped, wherever the tasks stand
stop ==
    /\ alive
    /\ alive' = FALSE
    /\ UNCHANGED <<daoVars, mainVars, store, pluginVars, last, pc, lock, tmp>>

---------------------------------------------------------------------------
(* src/main.py: QuoteStore.add and delete_by_id run by tasks; the write of *)
(* the file is where a task may be suspended.                              *)

\* add: "async with self._lock", then the append
call_add(t, q) ==
    /\ alive /\ pc[t].at = "idle"
    /\ lock = 0
    /\ lock' = t
    /\ quotes' = Append(quotes, asdict(q))
    /\ pc' = [pc EXCEPT ![t] = [NoCall EXCEPT !.at = "write", !.op = "add",
                                              !.arg = q]]
    /\ UNCHANGED <<daoVars, qfile, store, pluginVars, last, tmp, alive>>

\* delete_by_id: "async with self._lock", the filter, "return False" when
\* the length is unchanged
call_delete_by_id(t, qid) ==
    LET kept == {i \in DOMAIN quotes :
                    PyStr(Get(quotes[i], "id", None)) # PyStr(qid)}
    IN /\ alive /\ pc[t].at = "idle"
       /\ lock = 0
       /\ quotes' = Select(quotes, kept)
       /\ IF Cardinality(kept) = Len(quotes)
          THEN /\ pc' = [pc EXCEPT ![t] = [NoCall EXCEPT !.at = "done",
                                                         !.op = "delete_by_id",
                                                         !.arg = qid,
                                                         !.ret = Return(FALSE)]]
               /\ lock' = 0
          ELSE /\ pc' = [pc EXCEPT ![t] = [NoCall EXCEPT !.at = "write",
                                                         !.op = "delete_by_id",
                                                         !.arg = qid]]
               /\ lock' = t
       /\ UNCHANGED <<daoVars, qfile, store, pluginVars, last, tmp, alive>>

\* self._write({"quotes": self._quotes}), then the lock is released and the
\* call returns
call_write(t) ==
    /\ alive /\ pc[t].at = "write"
    /\ qfile' = write(quotes)
    /\ lock' = 0
    /\ Finish(t, Returns(pc[t].op))
    /\ UNCHANGED <<daoVars, quotes, store, pluginVars, last, tmp, alive>>

---------------------------------------------------------------------------
(* src/main.py: QuotesPlugin, the chat commands on top of the store.       *)

\* str.isdigit() for the ASCII digits
IsDigits(s) ==
    /\ s # <<>>
    /\ \A i \in DOMAIN s : s[i] \in {"0", "1", "2", "3", "4", "5", "6", "7", "8", "9"}

\* "s.isdigit() and len(s) >= 5"
IsQQNumber(s) == IsDigits(s) /\ Len(s) >= 5

\* the position of the first separator of seps in s, 0 when there is none
FirstSep(s, seps) ==
    LET at == {i \in DOMAIN s : s[i] \in seps}
    IN IF at = {} THEN 0 ELSE CHOOSE i \in at : \A j \in at : i <= j

\* the tokens of s between the separators
RECURSIVE Split(_, _)
Split(s, seps) ==
    IF FirstSep(s, seps) = 0 THEN {s}
    ELSE {SubSeq(s, 1, FirstSep(s, seps) - 1)}
         \cup Split(SubSeq(s, FirstSep(s, seps) + 1, Len(s)), seps)

\* _parse_blacklist: the entries of a list, or the tokens of a text cut at
\* line ends, commas and semicolons, stripped; only QQ numbers are kept
parse_blacklist(raw_val) ==
    IF raw_val.t = "list"
    THEN {Strip(PyStr(raw_val.v[i])) :
             i \in {j \in DOMAIN raw_val.v : IsQQNumber(Strip(PyStr(raw_val.v[j])))}}
    ELSE {Strip(tok) :
             tok \in {k \in Split(Strip(PyStr(OrElse(raw_val, Str(<<>>)))),
                                  {"\n", ";", ","}) :
                         IsQQNumber(Strip(k))}}

\* _is_blacklisted
is_blacklisted(qq) ==
    IF ~Truthy(qq) THEN FALSE
    ELSE PyStr(qq) \in parse_blacklist(config.blacklist)

\* " ".join(text.split()): blanks at the ends dropped, runs of blanks squeezed
RECURSIVE Squeeze(_)
Squeeze(s) ==
    IF Len(s) <= 1 THEN s
    ELSE IF s[1] = " " /\ s[2] = " " THEN Squeeze(Tail(s))
    ELSE <<s[1]>> \o Squeeze(Tail(s))

\* _strip_at_tokens on a text without "@": only the blanks are normalised
strip_at_tokens(text) == IF text = <<>> THEN <<>> ELSE Squeeze(Strip(text))

\* _session_key: str(event.get_group_id() or event.unified_msg_origin)
session_key(event) == PyStr(OrElse(event.group_id, event.umo))

\* str(event.get_group_id() or f"private_{event.get_sender_id()}")
group_key(event) ==
    PyStr(OrElse(event.group_id,
                 Str(<<"p", "r", "i", "v", "a", "t", "e", "_">> \o PyStr(event.sender))))

\* the text taken from the replied-to message, else from the command's own
\* text, None when both are empty
target_text(event) ==
    IF ~IsNone(event.reply_text) /\ Truthy(event.reply_text) THEN event.reply_text
    ELSE IF Strip(event.text.v) # <<>> THEN Str(Strip(event.text.v))
    ELSE None

\* uid as an author: only a QQ number counts
param_qq(event) ==
    IF IsQQNumber(Strip(event.uid.v)) THEN Str(Strip(event.uid.v)) ELSE Str(<<>>)

\* the author: parameter > @mention > uploader of a picture > sender of the
\* replied-to message
target_qq(event) ==
    IF Truthy(param_qq(event)) THEN Str(PyStr(param_qq(event)))
    ELSE IF Truthy(event.mention) THEN Str(PyStr(event.mention))
    ELSE IF event.images_from_current THEN Str(PyStr(event.sender))
    ELSE Str(PyStr(OrElse(event.reply_qq, Str(<<>>))))

\* the author as found before the parameter and the @mention are looked at
reply_qq_only(event) == Str(PyStr(OrElse(event.reply_qq, Str(<<>>))))

\* the id of a new quote: millisecond clock, "_", secrets.token_hex(2)
new_id(ms, token) == Str(ms \o <<"_">> \o token)

\* the Quote that the upload command stores; "unknown" and "[img]" stand for
\* the two fixed Chinese texts of the source, _resolve_user_name falls back
\* to the QQ number
uploaded(event, ms, token) ==
    LET text == strip_at_tokens(PyStr(OrElse(target_text(event), Str(<<>>))))
        images == IF event.images_from_current \/ event.images_from_reply
                  THEN <<"img">> ELSE <<>>
        qq == target_qq(event)
    IN [id |-> new_id(ms, token),
        qq |-> Str(PyStr(OrElse(qq, Str(<<>>)))),
        name |-> IF Truthy(qq) THEN Str(PyStr(qq))
                 ELSE Str(<<"unknown">>),
        text |-> IF text = <<>> THEN Str(<<"[", "img", "]">>) ELSE Str(text),
        created_by |-> Str(PyStr(event.sender)),
        created_at |-> 1,
        images |-> images,
        group |-> Str(group_key(event))]

\* the upload command with the blacklist looked up for the replied-to sender
QuotesPlugin_add_quote_early(event, ms, token) ==
    LET text == strip_at_tokens(PyStr(OrElse(target_text(event), Str(<<>>))))
        has_images == event.images_from_current \/ event.images_from_reply
    IN IF text = <<>> /\ ~has_images
       THEN /\ last' = Call("QuotesPlugin.add_quote", <<event>>,
                            Return("no-content"), <<>>, FALSE)
            /\ UNCHANGED <<daoVars, mainVars, store, taskVars, pluginVars>>
       ELSE IF Truthy(reply_qq_only(event)) /\ is_blacklisted(reply_qq_only(event))
       THEN /\ last' = Call("QuotesPlugin.add_quote", <<event>>,
                            Return("blacklisted"), <<>>, FALSE)
            /\ UNCHANGED <<daoVars, mainVars, store, taskVars, pluginVars>>
       ELSE /\ Len(quotes) < MaxQuotes
            /\ quotes' = Append(quotes, asdict(uploaded(event, ms, token)))
            /\ qfile' = write(quotes')
            /\ last' = Call("QuotesPlugin.add_quote", <<event>>,
                            Return("stored"), <<>>, TRUE)
            /\ UNCHANGED <<daoVars, store, taskVars, pluginVars>>

\* QuotesPlugin.add_quote, the upload command
QuotesPlugin_add_quote(event, ms, token) ==
    LET text == strip_at_tokens(PyStr(OrElse(target_text(event), Str(<<>>))))
        has_images == event.images_from_current \/ event.images_from_reply
    IN IF text = <<>> /\ ~has_images
       THEN /\ last' = Call("QuotesPlugin.add_quote", <<event>>,
                            Return("no-content"), <<>>, FALSE)
            /\ UNCHANGED <<daoVars, mainVars, store, taskVars, pluginVars>>
       ELSE IF Truthy(target_qq(event)) /\ is_blacklisted(target_qq(event))
       THEN /\ last' = Call("QuotesPlugin.add_quote", <<event>>,
                            Return("blacklisted"), <<>>, FALSE)
            /\ UNCHANGED <<daoVars, mainVars, store, taskVars, pluginVars>>
       ELSE /\ Len(quotes) < MaxQuotes
            /\ quotes' = Append(quotes, asdict(uploaded(event, ms, token)))
            /\ qfile' = write(quotes')
            /\ last' = Call("QuotesPlugin.add_quote", <<event>>,
                            Return("stored"), <<>>, TRUE)
            /\ UNCHANGED <<daoVars, store, taskVars, pluginVars>>

\* random_quote, the command that sends one quote of the session: the id of
\* the quote is recorded as pending for the session and the quote is sent
random_quote(event) ==
    LET effective_group == IF config.global_mode THEN None
                           ELSE Str(group_key(event))
        explicit == IF IsQQNumber(Strip(event.uid.v))
                    THEN Str(Strip(event.uid.v)) ELSE None
        only_qq == OrElse(explicit, event.mention)
        arr == {i \in DOMAIN quotes :
                   /\ Truthy(only_qq) => MainQQPasses(quotes[i], only_qq)
                   /\ IsNone(effective_group)
                      \/ MainGroupPasses(quotes[i], effective_group)}
        key == session_key(event)
    IN IF arr = {}
       THEN /\ last' = Call("random_quote", <<event>>, Return(None), <<>>, FALSE)
            /\ UNCHANGED <<daoVars, mainVars, store, taskVars, pluginVars>>
       ELSE \E i \in arr :
               IF CanMainQuote(quotes[i])
               THEN /\ pending_qid' =
                          [pending_qid EXCEPT ![key] = ToMainQuote(quotes[i]).id]
                    /\ sent' = sent \cup {<<key, ToMainQuote(quotes[i]).id>>}
                    /\ last' = Call("random_quote", <<event>>,
                                    Return(ToMainQuote(quotes[i]).id), <<i>>, FALSE)
                    /\ UNCHANGED <<daoVars, mainVars, store, taskVars, config,
                                   last_sent_qid>>
               ELSE /\ last' = Call("random_quote", <<event>>, Raise("TypeError"),
                                    <<i>>, FALSE)
                    /\ UNCHANGED <<daoVars, mainVars, store, taskVars, pluginVars>>

\* a hook that reads the pending id and leaves it recorded
on_after_message_sent_keep(event) ==
    LET key == session_key(event)
        qid == pending_qid[key]
    IN /\ IF Truthy(qid)
          THEN last_sent_qid' = [last_sent_qid EXCEPT ![key] = qid]
          ELSE UNCHANGED last_sent_qid
       /\ last' = Call("on_after_message_sent", <<event>>, Return(None), <<>>, FALSE)
       /\ UNCHANGED <<daoVars, mainVars, store, taskVars, config, sent, pending_qid>>

\* on_after_message_sent: the pending id of the session is popped and, when
\* there was one, becomes the last-sent id of the session
on_after_message_sent(event) ==
    LET key == session_key(event)
        qid == pending_qid[key]
    IN /\ pending_qid' = [pending_qid EXCEPT ![key] = None]
       /\ IF Truthy(qid)
          THEN last_sent_qid' = [last_sent_qid EXCEPT ![key] = qid]
          ELSE UNCHANGED last_sent_qid
       /\ last' = Call("on_after_message_sent", <<event>>, Return(None), <<>>, FALSE)
       /\ UNCHANGED <<daoVars, mainVars, store, taskVars, config, sent>>

\* the configured level: str(value or default).strip().replace(" ", ""); the
\* default is the admin level, written here by its ASCII name
level ==
    SelectSeq(Strip(PyStr(OrElse(config.delete_permission,
                                 Str(<<"a", "d", "m", "i", "n">>)))),
              LAMBDA c : c # " ")

\* the ASCII names of the levels
MemberNames == {<<"m", "e", "m", "b", "e", "r">>}
BotAdminNames == {<<"b", "o", "t", "_", "a", "d", "m", "i", "n">>,
                  <<"B", "o", "t", "A", "d", "m", "i", "n">>}
AdminNames == {<<"a", "d", "m", "i", "n">>}
OwnerNames == {<<"o", "w", "n", "e", "r">>}

\* a permission test that lets group admins pass at the owner level
check_delete_permission_lax(event) ==
    LET is_bot_admin == event.is_admin
        group == event.group
        sender_id == PyStr(event.sender)
        owner_id == IF group = None THEN <<>>
                    ELSE PyStr(OrElse(group.group_owner, Str(<<>>)))
        admin_ids == IF group = None THEN {}
                     ELSE {PyStr(group.group_admins[i]) : i \in DOMAIN group.group_admins}
        is_group_owner == owner_id # <<>> /\ sender_id = owner_id
        is_group_admin == sender_id \in admin_ids
    IN IF level \in MemberNames THEN TRUE
       ELSE IF level \in BotAdminNames THEN is_bot_admin
       ELSE IF ~Truthy(event.group_id) THEN is_bot_admin
       ELSE IF level \in AdminNames \cup OwnerNames
       THEN is_group_admin \/ is_group_owner \/ is_bot_admin
       ELSE is_bot_admin

\* _check_delete_permission; event.group is what event.get_group() gives,
\* None when the lookup fails
check_delete_permission(event) ==
    LET is_bot_admin == event.is_admin
        group == event.group
        sender_id == PyStr(event.sender)
        owner_id == IF group = None THEN <<>>
                    ELSE PyStr(OrElse(group.group_owner, Str(<<>>)))
        admin_ids == IF group = None THEN {}
                     ELSE {PyStr(group.group_admins[i]) : i \in DOMAIN group.group_admins}
        is_group_owner == owner_id # <<>> /\ sender_id = owner_id
        is_group_admin == sender_id \in admin_ids
    IN IF level \in MemberNames THEN TRUE
       ELSE IF level \in BotAdminNames THEN is_bot_admin
       ELSE IF ~Truthy(event.group_id) THEN is_bot_admin
       ELSE IF level \in AdminNames
       THEN is_group_admin \/ is_group_owner \/ is_bot_admin
       ELSE IF level \in OwnerNames THEN is_group_owner \/ is_bot_admin
       ELSE is_bot_admin

\* a message of the chat, named by the id of the quote it showed, <<>> when
\* it showed none
Message(qid) == [t |-> "msg", v |-> qid]

\* QuotesPlugin.delete_quote, the delete command: event.reply is None without
\* a Reply segment, else the replied-to message; the handler only tests that
\* there is one
QuotesPlugin_delete_quote(event) ==
    LET key == session_key(event)
        qid == OrElse(last_sent_qid[key], pending_qid[key])
        kept == {i \in DOMAIN quotes :
                    PyStr(Get(quotes[i], "id", None)) # PyStr(qid)}
        Answer(ret, saved) ==
            last' = Call("QuotesPlugin.delete_quote", <<event>>, Return(ret),
                         <<>>, saved)
    IN IF ~check_delete_permission(event)
       THEN /\ Answer("denied", FALSE)
            /\ UNCHANGED <<daoVars, mainVars, store, taskVars, pluginVars>>
       ELSE IF IsNone(event.reply)
       THEN /\ Answer("no-reply", FALSE)
            /\ UNCHANGED <<daoVars, mainVars, store, taskVars, pluginVars>>
       ELSE IF ~Truthy(qid)
       THEN /\ Answer("not-located", FALSE)
            /\ UNCHANGED <<daoVars, mainVars, store, taskVars, pluginVars>>
       ELSE IF Cardinality(kept) = Len(quotes)
       THEN /\ Answer("not-found", FALSE)
            /\ UNCHANGED <<daoVars, mainVars, store, taskVars, pluginVars>>
       ELSE /\ quotes' = Select(quotes, kept)
            /\ qfile' = write(quotes')
            /\ Answer("deleted", TRUE)
            /\ UNCHANGED <<daoVars, store, taskVars, pluginVars>>

---------------------------------------------------------------------------
(* Inputs.                                                                 *)

Ids == {Str(<<"1">>), Str(<<"2">>)}
QQs == {Str(<<"1">>), Str(<<"2">>)}
Times == {1, 2}
Groups == {Str(<<"a">>), Str(<<"b">>)}

\* quotes of the dao store that differ in id, author and group
Quotes ==
    {Quote(id, qq, Str(<<"a">>), 1, g) : id \in Ids, qq \in QQs, g \in Groups}

\* quotes of the dao store that differ in creation time as well
TimedQuotes ==
    {Quote(id, qq, Str(<<"a">>), t, g) :
        id \in Ids, qq \in QQs, t \in Times, g \in Groups}

MainQuotes ==
    {MainQuote(id, qq, Str(<<"a">>), 1, g) : id \in Ids, qq \in QQs, g \in Groups}

OptGroups == Groups \cup {None}
OptQQs == QQs \cup {None}
\* counts asked of get_random_batch: negative, zero, below and above the matches
Counts == {-1, 0, 1, 2}

\* (group, text) pairs that exercise the duplicate key: an empty group, a
\* blank text, two texts that differ only in surrounding blanks, and two
\* pairs whose "{group}_{text}" strings coincide
KeyPairs ==
    {<<Str(<<>>), Str(<<"a">>)>>,
     <<Str(<<"a">>), Str(<<" ">>)>>,
     <<Str(<<"a">>), Str(<<" ", "a">>)>>,
     <<Str(<<"a">>), Str(<<"a">>)>>,
     <<Str(<<"a">>), Str(<<"a", "_", "a">>)>>,
     <<Str(<<"a", "_", "a">>), Str(<<"a">>)>>}

KeyQuotes == {Quote(id, Str(<<"1">>), p[2], 1, p[1]) : id \in Ids, p \in KeyPairs}

Idle == Call("init", <<>>, Return(None), <<>>, FALSE)

\* the files a store may find: none, an unparsable one, a list of records
Files(Q) == {NoFile, BadFile} \cup {JsonFile(qs) : qs \in SeqsUpTo(Q, MaxQuotes)}

---------------------------------------------------------------------------
(* Construction.                                                           *)

\* the session keys of the chats of the model: two groups and a private chat
SessionKeys == {<<"a">>, <<"b">>, <<"u", "1">>}

\* a list value of the configuration
PyList(xs) == [t |-> "list", v |-> xs]

\* no blacklist, delete_permission unset, global_mode off
NoConfig ==
    [blacklist |-> None, delete_permission |-> None, global_mode |-> FALSE]

\* QuotesPlugin.__init__: the configuration is kept, both records of sent
\* quotes start empty
PluginInit(configs) ==
    /\ config \in configs
    /\ pending_qid = [k \in SessionKeys |-> None]
    /\ last_sent_qid = [k \in SessionKeys |-> None]
    /\ sent = {}

\* dao QuoteStore.__init__: load the file, then rebuild the index
DaoInit(files) ==
    /\ file \in files
    /\ cache = load(file)
    /\ index = rebuild_index(cache)
    /\ quotes = <<>>
    /\ qfile = NoFile
    /\ store = "dao"
    /\ last = Idle
    /\ TasksIdle
    /\ PluginInit({NoConfig})

\* main QuoteStore.__init__: create the file when missing, then read it
MainStoreInit(files) ==
    /\ \E f \in files : qfile = IF f.kind = "missing" THEN write(<<>>) ELSE f
    /\ quotes = read(qfile)
    /\ cache = <<>>
    /\ index = {}
    /\ file = NoFile
    /\ store = "main"
    /\ last = Idle
    /\ TasksIdle

MainInit(files) == MainStoreInit(files) /\ PluginInit({NoConfig})

\* dao QuoteStore.__init__ as a call that may raise: _load, then
\* _rebuild_index outside the try of _load
QuoteStore_init ==
    /\ last.op = "start"
    /\ IF rebuild_raises(file) = "no"
       THEN /\ cache' = load(file)
            /\ index' = rebuild_index(cache')
            /\ last' = Call("__init__", <<>>, Return(None), <<>>, FALSE)
       ELSE /\ last' = Call("__init__", <<>>, Raise(rebuild_raises(file)),
                            <<>>, FALSE)
            /\ UNCHANGED <<cache, index>>
    /\ UNCHANGED <<file, mainVars, store, pluginVars, taskVars>>

\* a new dao QuoteStore is constructed on the data directory of the old one
reopen ==
    /\ cache' = load(file)
    /\ index' = rebuild_index(cache')
    /\ last' = Call("__init__", <<>>, Return(None), <<>>, FALSE)
    /\ UNCHANGED <<file, mainVars, store, pluginVars, taskVars>>

---------------------------------------------------------------------------
(* Either store with its mutations and queries.                            *)

Init == DaoInit(Files(Quotes)) \/ MainInit(Files(MainQuotes))

Next ==
    \/ store = "dao" /\ \E q \in Quotes : add_quote(q)
    \/ store = "dao" /\ \E qid \in Ids : delete_quote(qid)
    \/ store = "dao" /\ \E g \in Groups : check_exists(g, Str(<<"a">>))
    \/ store = "dao" /\ \E g \in OptGroups, a \in OptQQs : get_random(g, a)
    \/ store = "dao" /\ \E g \in OptGroups, n \in Counts : get_random_batch(g, n)
    \/ store = "dao" /\ \E g \in OptGroups, a \in QQs : get_user_quotes(g, a)
    \/ store = "main" /\ \E q \in MainQuotes : add(q)
    \/ store = "main" /\ \E g \in OptGroups : random_one(g)
    \/ store = "main" /\ \E a \in QQs, g \in OptGroups : random_one_by_qq(a, g)
    \/ store = "main" /\ \E qid \in Ids : delete_by_id(qid)

Spec == Init /\ [][Next]_vars

---------------------------------------------------------------------------
(* The dao store with records of differing creation time.                  *)

InitOrder == DaoInit(Files(TimedQuotes))

NextOrder ==
    \/ \E q \in TimedQuotes : add_quote(q)
    \/ \E qid \in Ids : delete_quote(qid)
    \/ \E g \in OptGroups, a \in QQs : get_user_quotes(g, a)

SpecOrder == InitOrder /\ [][NextOrder]_vars

---------------------------------------------------------------------------
(* The dao store with records that exercise the duplicate index.           *)

InitIndex == DaoInit(Files(KeyQuotes))

NextIndex ==
    \/ \E q \in KeyQuotes : add_quote(q)
    \/ \E qid \in Ids : delete_quote(qid)
    \/ \E p \in KeyPairs : check_exists(p[1], p[2])

SpecIndex == InitIndex /\ [][NextIndex]_vars

---------------------------------------------------------------------------
(* A caller of the dao store that adds only right after a check_exists of  *)
(* the same group and text returned false, starting from an empty store.   *)

InitChecked == DaoInit({NoFile})

CheckedAdd(q) ==
    /\ last.op = "check_exists"
    /\ last.args = <<q.group, q.text>>
    /\ last.ret = Return(FALSE)
    /\ add_quote(q)

NextChecked ==
    \/ \E p \in KeyPairs : check_exists(p[1], p[2])
    \/ \E q \in KeyQuotes : CheckedAdd(q)
    \/ \E qid \in Ids : delete_quote(qid)

SpecChecked == InitChecked /\ [][NextChecked]_vars

---------------------------------------------------------------------------
(* Tasks that call add_quote and delete_quote of the dao store, each call  *)
(* once, while the write and the rename may fail and the process may stop. *)

\* quotes of one group and author that differ in id
TaskQuotes == {Quote(id, Str(<<"1">>), Str(<<"a">>), 1, Str(<<"a">>)) : id \in Ids}

\* the files the store starts from: none, or at most one record
TaskFiles == {NoFile} \cup {JsonFile(qs) : qs \in SeqsUpTo(TaskQuotes, 1)}

InitFault == DaoInit(TaskFiles)

NextFault ==
    \/ \E t \in Tasks, q \in TaskQuotes : call_add_quote(t, q)
    \/ \E t \in Tasks, qid \in Ids : call_delete_quote(t, qid)
    \/ \E t \in Tasks : save_lock(t)
    \/ \E t \in Tasks : save_mkstemp(t)
    \/ \E t \in Tasks : save_mkstemp_raises(t)
    \/ \E t \in Tasks : save_write(t)
    \/ \E t \in Tasks : save_write_raises(t)
    \/ \E t \in Tasks : save_replace(t)
    \/ \E t \in Tasks : save_replace_raises(t)
    \/ \E t \in Tasks : save_except(t)
    \/ stop

SpecFault == InitFault /\ [][NextFault]_vars

---------------------------------------------------------------------------
(* The same tasks when every persist succeeds and the process keeps        *)
(* running.                                                                *)

MainTaskQuotes ==
    {MainQuote(id, Str(<<"1">>), Str(<<"a">>), 1, Str(<<"a">>)) : id \in Ids}

MainTaskFiles == {NoFile} \cup {JsonFile(qs) : qs \in SeqsUpTo(MainTaskQuotes, 1)}

InitTasks == DaoInit(TaskFiles) \/ MainInit(MainTaskFiles)

NextTasks ==
    \/ store = "dao" /\ \E t \in Tasks, q \in TaskQuotes : call_add_quote(t, q)
    \/ store = "dao" /\ \E t \in Tasks, qid \in Ids : call_delete_quote(t, qid)
    \/ store = "dao" /\ \E t \in Tasks : save_lock(t)
    \/ store = "dao" /\ \E t \in Tasks : save_mkstemp(t)
    \/ store = "dao" /\ \E t \in Tasks : save_write(t)
    \/ store = "dao" /\ \E t \in Tasks : save_replace(t)
    \/ store = "main" /\ \E t \in Tasks, q \in MainTaskQuotes : call_add(t, q)
    \/ store = "main" /\ \E t \in Tasks, qid \in Ids : call_delete_by_id(t, qid)
    \/ store = "main" /\ \E t \in Tasks : call_write(t)

SpecTasks == InitTasks /\ [][NextTasks]_vars

---------------------------------------------------------------------------
(* The dao store constructed on a backing file of any content.             *)

\* what a JSON list under "quotes" may hold besides records
NonRecords == {None, Str(<<"x">>)}

\* the files found at construction: missing, unparsable, not an object, an
\* object without "quotes", with a null or a string under it, and lists of
\* records and other values
LoadFiles ==
    {NoFile, BadFile, ArrayFile, NoQuotesFile,
     NonListFile(None), NonListFile(Str(<<"x">>))}
    \cup {JsonFile(qs) : qs \in SeqsUpTo(KeyQuotes \cup NonRecords, MaxQuotes)}

InitLoad ==
    /\ file \in LoadFiles
    /\ cache = <<>>
    /\ index = {}
    /\ quotes = <<>>
    /\ qfile = NoFile
    /\ store = "dao"
    /\ last = Call("start", <<>>, Return(None), <<>>, FALSE)
    /\ TasksIdle
    /\ PluginInit({NoConfig})

NextLoad == QuoteStore_init

SpecLoad == InitLoad /\ [][NextLoad]_vars

---------------------------------------------------------------------------
(* The dao store, empty at first, that is opened again on its file after   *)
(* adds and deletes whose persist succeeded.                               *)

InitReopen == DaoInit({NoFile, BadFile})

NextReopen ==
    \/ \E q \in Quotes : add_quote(q)
    \/ \E qid \in Ids : delete_quote(qid)
    \/ reopen

SpecReopen == InitReopen /\ [][NextReopen]_vars

---------------------------------------------------------------------------
(* Either store with identifiers given as numbers and as strings.          *)

\* the identifier 1 as a string and as a number, and the identifier "2"
Idents == {Str(<<"1">>), Int10(<<"1">>), Str(<<"2">>)}
Ones == {Str(<<"1">>), Int10(<<"1">>)}

NumQuotes == {Quote(id, qq, Str(<<"a">>), 1, g) : id \in Idents, qq \in Ones, g \in Idents}

MainNumQuotes ==
    {MainQuote(id, Str(<<"1">>), Str(<<"a">>), 1, Str(<<"1">>)) : id \in Idents}

InitNumeric == DaoInit(Files(NumQuotes)) \/ MainInit(Files(MainNumQuotes))

NextNumeric ==
    \/ store = "dao" /\ \E q \in NumQuotes : add_quote(q)
    \/ store = "dao" /\ \E qid \in Idents : delete_quote(qid)
    \/ store = "dao" /\ \E g \in Idents : get_random(g, None)
    \/ store = "dao" /\ \E g \in Idents \cup {None}, a \in Ones : get_user_quotes(g, a)
    \/ store = "main" /\ \E q \in MainNumQuotes : add(q)
    \/ store = "main" /\ \E qid \in Idents : delete_by_id(qid)

SpecNumeric == InitNumeric /\ [][NextNumeric]_vars

---------------------------------------------------------------------------
(* Either store on a file whose records carry a field the Quote type does  *)
(* not know, or lack a field.                                              *)

\* the record with one more field, and with one field less
With(r, k, v) == [j \in DOMAIN r \cup {k} |-> IF j = k THEN v ELSE r[j]]
Without(r, k) == [j \in DOMAIN r \ {k} |-> r[j]]

\* records of the dao store: complete, written by the other store with an
\* "images" field, without "group", without "ai_reason"
FieldRecords ==
    UNION {{q, With(q, "images", <<>>), Without(q, "group"),
            Without(q, "ai_reason")} : q \in TaskQuotes}

\* records of the main store: complete, written by the other store with an
\* "ai_reason" field, without "group", without "images"
MainFieldRecords ==
    UNION {{q, With(q, "ai_reason", None), Without(q, "group"),
            Without(q, "images")} :
           q \in {MainQuote(id, Str(<<"1">>), Str(<<"a">>), 1, Str(<<"a">>)) :
                     id \in Ids}}

InitFields == DaoInit(Files(FieldRecords)) \/ MainInit(Files(MainFieldRecords))

NextFields ==
    \/ store = "dao" /\ \E g \in {Str(<<"a">>), None} : get_random(g, None)
    \/ store = "dao" /\ \E n \in {1, 2} : get_random_batch(None, n)
    \/ store = "dao" /\ \E g \in {Str(<<"a">>), None} :
                          get_user_quotes(g, Str(<<"1">>))
    \/ store = "main" /\ \E g \in {Str(<<"a">>), None} : random_one(g)
    \/ store = "main" /\ \E g \in {Str(<<"a">>), None} :
                           random_one_by_qq(Str(<<"1">>), g)

SpecFields == InitFields /\ [][NextFields]_vars

---------------------------------------------------------------------------
(* The upload command under a configured blacklist, on an empty store.     *)

Black == <<"1", "0", "0", "0", "1">>
White == <<"1", "0", "0", "0", "2">>

\* blacklists: none, a list with the number padded by blanks and an entry
\* that is no QQ number, a list with the number as an int, the old text form
Blacklists ==
    {None,
     PyList(<<Str(<<" ">> \o Black \o <<" ">>), Str(<<"1", "2", "3", "4">>)>>),
     PyList(<<Int10(Black)>>),
     Str(<<"9", "9", "9", "9", "9", ";", " ">> \o Black)}

UploadConfigs ==
    {[blacklist |-> b, delete_permission |-> None, global_mode |-> FALSE] :
        b \in Blacklists}

\* an upload command in group "a"
Upload(s, u, m, rt, rq, ic) ==
    [group_id |-> Str(<<"a">>), sender |-> Str(s), umo |-> Str(<<"u", "1">>),
     uid |-> Str(u), mention |-> m, reply_text |-> rt, reply_qq |-> rq,
     text |-> Str(<<>>), images_from_current |-> ic, images_from_reply |-> FALSE]

\* every way the author is resolved, with a listed and an unlisted number,
\* and the orders of precedence between parameter, @mention, own picture
\* and replied-to sender
Uploads ==
    {Upload(White, <<>>, None, Str(<<"a">>), Str(Black), FALSE),
     Upload(Black, <<>>, None, Str(<<"a">>), Str(White), FALSE),
     Upload(White, <<>>, None, Str(<<"a">>), None, FALSE),
     Upload(White, <<>>, Str(Black), Str(<<"a">>), Str(White), FALSE),
     Upload(White, <<>>, Str(White), Str(<<"a">>), Str(Black), FALSE),
     Upload(White, <<" ">> \o Black, Str(White), Str(<<"a">>), Str(White), FALSE),
     Upload(White, White, Str(Black), Str(<<"a">>), Str(Black), FALSE),
     Upload(White, <<"1", "2", "3", "4">>, None, Str(<<"a">>), Str(Black), FALSE),
     Upload(Black, <<>>, None, None, None, TRUE),
     Upload(White, <<>>, None, None, None, TRUE),
     Upload(White, <<>>, Str(Black), None, None, TRUE),
     Upload(White, <<>>, None, None, None, FALSE)}

Millis == {<<"1">>}
Tokens == {<<"0", "0", "0", "0">>, <<"0", "0", "0", "1">>}

InitUpload == MainStoreInit({NoFile}) /\ PluginInit(UploadConfigs)

NextUpload ==
    \E e \in Uploads, ms \in Millis : QuotesPlugin_add_quote(e, ms, <<"0", "0", "0", "0">>)

SpecUpload == InitUpload /\ [][NextUpload]_vars

---------------------------------------------------------------------------
(* Uploads, random sends, after-sent hooks and deletes in two group chats, *)
(* global mode off, every sender a bot admin.                              *)

Chats == {Str(<<"a">>), Str(<<"b">>)}

\* an upload of the text of a replied-to message in the chat
SessionUploads ==
    {[group_id |-> g, sender |-> Str(White), umo |-> Str(<<"u", "1">>),
      uid |-> Str(<<>>), mention |-> None, reply_text |-> Str(<<"a">>),
      reply_qq |-> Str(White), text |-> Str(<<>>),
      images_from_current |-> FALSE, images_from_reply |-> FALSE] : g \in Chats}

RandomEvents ==
    {[group_id |-> g, sender |-> Str(White), umo |-> Str(<<"u", "1">>),
      uid |-> Str(<<>>), mention |-> None] : g \in Chats}

HookEvents == {[group_id |-> g, umo |-> Str(<<"u", "1">>)] : g \in Chats}

\* the delete command of a bot admin, in reply to a message of the chat
DeleteEvents ==
    {[group_id |-> g, sender |-> Str(White), umo |-> Str(<<"u", "1">>),
      is_admin |-> TRUE, group |-> None, reply |-> Message(i)] :
        g \in Chats, i \in {ms \o <<"_">> \o tok : ms \in Millis, tok \in Tokens}}

\* the replied-to message is one the bot sent in that chat
RepliesToSent(event) == <<session_key(event), Str(event.reply.v)>> \in sent

InitSession == MainStoreInit({NoFile}) /\ PluginInit({NoConfig})

NextSession ==
    \/ \E e \in SessionUploads, ms \in Millis, token \in Tokens :
          QuotesPlugin_add_quote(e, ms, token)
    \/ \E e \in RandomEvents : random_quote(e)
    \/ \E e \in HookEvents : on_after_message_sent(e)
    \/ \E e \in DeleteEvents : RepliesToSent(e) /\ QuotesPlugin_delete_quote(e)

SpecSession == InitSession /\ [][NextSession]_vars

---------------------------------------------------------------------------
(* Callers of the dao store that run check_exists, are suspended, and then *)
(* run add_quote when the check said false.                                *)

\* the caller's check_exists: on true the caller gives up, on false it goes
\* on to its add after a suspension
call_check_exists(t, quote) ==
    /\ alive /\ pc[t].at = "idle"
    /\ IF Key(PyStr(quote.group), Strip(quote.text.v)) \in index
       THEN pc' = [pc EXCEPT ![t] = [NoCall EXCEPT !.at = "done",
                                                   !.op = "check_exists",
                                                   !.arg = quote,
                                                   !.ret = Return(TRUE)]]
       ELSE pc' = [pc EXCEPT ![t] = [NoCall EXCEPT !.at = "checked",
                                                   !.op = "check_exists",
                                                   !.arg = quote,
                                                   !.ret = Return(FALSE)]]
    /\ UNCHANGED <<daoVars, mainVars, store, pluginVars, last, lock, tmp, alive>>

\* an add_quote that looks the key up in the index and skips a duplicate
add_after_check_guarded(t) ==
    LET quote == pc[t].arg
        key == Key(PyStr(quote.group), Strip(quote.text.v))
    IN /\ alive /\ pc[t].at = "checked"
       /\ IF key \in index
          THEN /\ pc' = [pc EXCEPT ![t].at = "done", ![t].op = "add_quote"]
               /\ UNCHANGED <<cache, index>>
          ELSE /\ cache' = Append(cache, asdict(quote))
               /\ index' = index \cup {key}
               /\ pc' = [pc EXCEPT ![t] = [NoCall EXCEPT !.at = "save",
                                                         !.op = "add_quote",
                                                         !.arg = quote]]
       /\ UNCHANGED <<file, mainVars, store, pluginVars, last, lock, tmp, alive>>

\* the caller's add_quote after a check that said false, up to the await of
\* _save: the record is appended and its key put in the index
add_after_check(t) ==
    LET quote == pc[t].arg
        key == Key(PyStr(quote.group), Strip(quote.text.v))
    IN /\ alive /\ pc[t].at = "checked"
       /\ cache' = Append(cache, asdict(quote))
       /\ index' = index \cup {key}
       /\ pc' = [pc EXCEPT ![t] = [NoCall EXCEPT !.at = "save",
                                                 !.op = "add_quote",
                                                 !.arg = quote]]
       /\ UNCHANGED <<file, mainVars, store, pluginVars, last, lock, tmp, alive>>

\* two ids, and two texts that differ only in a leading blank
RaceQuotes ==
    {Quote(id, Str(<<"1">>), Str(txt), 1, Str(<<"a">>)) :
        id \in Ids, txt \in {<<"a">>, <<" ", "a">>, <<"b">>}}

InitRace == DaoInit({NoFile})

NextRace ==
    \/ \E t \in Tasks, q \in RaceQuotes : call_check_exists(t, q)
    \/ \E t \in Tasks : add_after_check(t)
    \/ \E t \in Tasks : save_lock(t)
    \/ \E t \in Tasks : save_mkstemp(t)
    \/ \E t \in Tasks : save_write(t)
    \/ \E t \in Tasks : save_replace(t)

SpecRace == InitRace /\ [][NextRace]_vars

---------------------------------------------------------------------------
(* The delete command under every delete_permission level, by senders of   *)
(* every role, in a group chat and in a private chat.                      *)

\* unset, empty, the four levels by their ASCII names, one with blanks
\* inside, and two values that name no level
Permissions ==
    {None, Str(<<>>),
     Str(<<"m", "e", "m", "b", "e", "r">>),
     Str(<<" ", "m", "e", "m", " ", "b", "e", "r">>),
     Str(<<"b", "o", "t", "_", "a", "d", "m", "i", "n">>),
     Str(<<"a", "d", "m", "i", "n">>),
     Str(<<"o", "w", "n", "e", "r">>),
     Str(<<"O", "w", "n", "e", "r">>),
     Str(<<"x">>)}

PermissionConfigs ==
    {[blacklist |-> None, delete_permission |-> p, global_mode |-> FALSE] :
        p \in Permissions}

\* what event.get_group() gives: nothing, the sender as owner, the sender
\* as admin under another owner (ids as numbers), a group that names neither
GroupInfos ==
    {None,
     [group_owner |-> Str(White), group_admins |-> <<>>],
     [group_owner |-> Int10(Black), group_admins |-> <<Int10(White)>>],
     [group_owner |-> None, group_admins |-> <<Str(Black)>>]}

\* the quote of the group chat and the quote of the private chat
GroupQuote ==
    asdict(uploaded(Upload(White, <<>>, None, Str(<<"a">>), Str(White), FALSE),
                    <<"1">>, <<"0", "0", "0", "0">>))
PrivateQuote ==
    asdict(uploaded([Upload(White, <<>>, None, Str(<<"a">>), Str(White), FALSE)
                        EXCEPT !.group_id = None],
                    <<"1">>, <<"0", "0", "0", "1">>))

PermissionRandoms ==
    {[group_id |-> g, sender |-> Str(White), umo |-> Str(<<"u", "1">>),
      uid |-> Str(<<>>), mention |-> None] : g \in {Str(<<"a">>), None}}

PermissionDeletes ==
    {[group_id |-> g, sender |-> Str(White), umo |-> Str(<<"u", "1">>),
      is_admin |-> b, group |-> info, reply |-> r] :
        g \in {Str(<<"a">>), None}, b \in BOOLEAN, info \in GroupInfos,
        r \in {None, Message(<<>>)}}

InitPermission ==
    /\ MainStoreInit({JsonFile(<<GroupQuote, PrivateQuote>>)})
    /\ PluginInit(PermissionConfigs)

NextPermission ==
    \/ \E e \in PermissionRandoms : random_quote(e)
    \/ \E e \in PermissionRandoms :
          on_after_message_sent([group_id |-> e.group_id, umo |-> e.umo])
    \/ \E e \in PermissionDeletes : QuotesPlugin_delete_quote(e)

SpecPermission == InitPermission /\ [][NextPermission]_vars

---------------------------------------------------------------------------
(* Vocabulary of the properties, stated on the stored fields themselves.   *)

\* the text without its leading and trailing blanks
Trimmed(s) ==
    LET inked == {i \in DOMAIN s : s[i] # " "}
    IN IF inked = {} THEN <<>>
       ELSE SubSeq(s, CHOOSE i \in inked : \A j \in inked : i <= j,
                      CHOOSE i \in inked : \A j \in inked : j <= i)

SameDedupPair(r1, r2) ==
    r1.group = r2.group /\ Trimmed(r1.text.v) = Trimmed(r2.text.v)

---------------------------------------------------------------------------
(* C1: a caller that adds only right after check_exists of the same group  *)
(* and text returned false, starting from an empty store and deleting at   *)
(* will, never has two stored records with the same group and the same     *)
(* whitespace-trimmed text.                                                *)
C1_NoDuplicatePair ==
    \A i, j \in DOMAIN cache : i # j => ~SameDedupPair(cache[i], cache[j])

\* a check of a text that differs from a stored one only in its blanks
\* answered true, so the caller did not add it
C1_Witness ==
    /\ Len(cache) = 2
    /\ last.op = "check_exists"
    /\ last.ret = Return(TRUE)
    /\ \E i \in DOMAIN cache :
          /\ cache[i].group = last.args[1]
          /\ cache[i].text # last.args[2]
          /\ Trimmed(cache[i].text.v) = Trimmed(last.args[2].v)

---------------------------------------------------------------------------
(* C2: for non-empty group g and non-empty text t, check_exists(g, t) is   *)
(* true exactly when a stored record has group g and trimmed text equal to *)
(* the trimmed t.                                                          *)
C2_ExistsIffStored ==
    (/\ last.op = "check_exists"
     /\ last.args[1].v # <<>>
     /\ Trimmed(last.args[2].v) # <<>>)
    => (last.ret.val
          <=> \E i \in DOMAIN cache :
                 /\ cache[i].group = last.args[1]
                 /\ Trimmed(cache[i].text.v) = Trimmed(last.args[2].v))

---------------------------------------------------------------------------
(* C3: the duplicate index always equals the index _rebuild_index would    *)
(* compute from the current record list.                                   *)
C3_IndexIsRebuilt == index = rebuild_index(cache)

---------------------------------------------------------------------------
(* C4: a stored record with an empty group or an empty trimmed text has no *)
(* key in the duplicate index, so check_exists of its group and text is    *)
(* false.                                                                  *)
C4_EmptyNotIndexed ==
    \A i \in DOMAIN cache :
        (cache[i].group.v = <<>> \/ Trimmed(cache[i].text.v) = <<>>)
        => (cache[i].group.v \o <<"_">> \o Trimmed(cache[i].text.v)) \notin index

---------------------------------------------------------------------------
(* Vocabulary of the query properties.                                     *)

GroupIs(r, g) == IsNone(g) \/ r.group = g
AuthorIs(r, a) == IsNone(a) \/ r.qq = a

Matching(list, g, a) ==
    {i \in DOMAIN list : GroupIs(list[i], g) /\ AuthorIs(list[i], a)}

\* the record list and the file of the store that was constructed
List == IF store = "dao" THEN cache ELSE quotes
File == IF store = "dao" THEN file ELSE qfile

StoredIds(list) == {list[i].id : i \in DOMAIN list}

Occurrences(list, S, r) == Cardinality({i \in S : list[i] = r})

\* the last call picked one record matching (g, a), or none when none matches
Picked(list, g, a) ==
    IF Matching(list, g, a) = {} THEN last.ret = Return(None)
    ELSE /\ last.ret.kind = "return"
         /\ \E i \in Matching(list, g, a) : last.ret.val = list[i]

IsDelete(l) == l.op \in {"delete_quote", "delete_by_id"}
IsAdd(l) == l.op \in {"add_quote", "add"}

\* the quotes a query handed back
Returned(l) ==
    IF l.ret.kind # "return" THEN {}
    ELSE IF l.op \in {"get_random", "random_one", "random_one_by_qq"}
    THEN (IF l.ret.val = None THEN {} ELSE {l.ret.val})
    ELSE IF l.op \in {"get_random_batch", "get_user_quotes"}
    THEN Range(l.ret.val)
    ELSE {}

---------------------------------------------------------------------------
(* C5: the single random pick returns a stored record of group g (any      *)
(* group when g is null) and author a (any author when a is null), and     *)
(* returns none exactly when no stored record matches.                     *)
C5_PickMatches ==
    /\ last.op = "get_random" => Picked(cache, last.args[1], last.args[2])
    /\ last.op = "random_one" => Picked(quotes, last.args[1], None)
    /\ last.op = "random_one_by_qq" => Picked(quotes, last.args[2], last.args[1])

\* a pick by group and author succeeded while a record of another group
\* is stored
C5_Witness ==
    /\ last.op = "get_random"
    /\ ~IsNone(last.args[1])
    /\ ~IsNone(last.args[2])
    /\ last.ret # Return(None)
    /\ \E i \in DOMAIN cache : cache[i].group # last.args[1]

---------------------------------------------------------------------------
(* C6: get_random_batch(g, N) returns without error min(N, matching)       *)
(* distinct stored records of group g when N >= 0 and the empty list when  *)
(* N <= 0.                                                                 *)
C6_BatchSize ==
    last.op = "get_random_batch" =>
        LET g == last.args[1]
            n == last.args[2]
            m == Cardinality(Matching(cache, g, None))
        IN /\ last.ret.kind = "return"
           /\ Len(last.ret.val) = (IF n <= 0 THEN 0 ELSE IF n <= m THEN n ELSE m)
           /\ Cardinality(Range(last.pos)) = Len(last.ret.val)
           /\ \A k \in DOMAIN last.ret.val :
                 /\ last.pos[k] \in Matching(cache, g, None)
                 /\ last.ret.val[k] = cache[last.pos[k]]

---------------------------------------------------------------------------
(* C7: get_user_quotes(g, a) returns every stored record of group g (any   *)
(* when g is null) and author a exactly once, and nothing else.            *)
C7_AuthorListing ==
    last.op = "get_user_quotes" =>
        /\ last.ret.kind = "return"
        /\ \A r \in Range(cache) \cup Range(last.ret.val) :
              Occurrences(last.ret.val, DOMAIN last.ret.val, r)
                = Occurrences(cache, Matching(cache, last.args[1], last.args[2]), r)

\* a listing within a group that keeps one stored record and leaves one out
C7_Witness ==
    /\ last.op = "get_user_quotes"
    /\ ~IsNone(last.args[1])
    /\ Len(cache) = 2
    /\ Len(last.ret.val) = 1

---------------------------------------------------------------------------
(* C8: the list returned by get_user_quotes is sorted ascending by         *)
(* created_at, whatever the order in which the records were added.         *)
C8_ListingSorted ==
    (last.op = "get_user_quotes" /\ last.ret.kind = "return") =>
        \A k, l \in DOMAIN last.ret.val :
            k < l => last.ret.val[k].created_at <= last.ret.val[l].created_at

---------------------------------------------------------------------------
(* C9: the first delete of a stored id returns true and a second delete of *)
(* the same id returns false; once deleted, and until it is added again,   *)
(* the id is in no query result and in no record of the persisted file.    *)
C9_Step ==
    /\ (IsDelete(last') /\ last'.args[1] \in StoredIds(List))
          => /\ last'.ret = Return(TRUE)
             /\ last'.args[1] \notin StoredIds(List')
             /\ last'.args[1] \notin StoredIds(File'.quotes)
    /\ (IsDelete(last) /\ last.ret = Return(TRUE)
           /\ IsDelete(last') /\ last'.args = last.args)
          => last'.ret = Return(FALSE)
    /\ \A id \in Ids :
          (id \notin StoredIds(List) /\ ~(IsAdd(last') /\ last'.args[1].id = id))
          => /\ id \notin StoredIds(List')
             /\ id \notin StoredIds(File'.quotes)
             /\ \A q \in Returned(last') : q.id # id

C9_DeleteOnce == [][C9_Step]_vars

\* a delete returned true and left a record of another id in the list
C9_Witness ==
    /\ last.op = "delete_quote"
    /\ last.ret = Return(TRUE)
    /\ Len(cache) = 1
    /\ file = JsonFile(cache)

---------------------------------------------------------------------------
(* C10: delete of an id that is not stored returns false and leaves the    *)
(* record list, the duplicate index and the file unchanged, with no        *)
(* persist.                                                                *)
C10_Step ==
    (IsDelete(last') /\ last'.args[1] \notin StoredIds(List))
    => /\ last'.ret = Return(FALSE)
       /\ ~last'.saved
       /\ UNCHANGED <<cache, index, file, quotes, qfile>>

C10_DeleteAbsent == [][C10_Step]_vars

\* a delete of an unknown id returned false on a store that holds records
C10_Witness ==
    /\ last.op = "delete_quote"
    /\ last.ret = Return(FALSE)
    /\ ~last.saved
    /\ cache # <<>>


---------------------------------------------------------------------------
(* C11: at every point of every persist, a stop of the process between the *)
(* write of the temporary file and the rename included, quotes.json holds  *)
(* its complete previous content or the complete new content: it changes   *)
(* only by the rename of a fully written temporary file.                   *)

\* the temporary file of the task holds the whole text that _save serialised
FullyWritten(t) ==
    /\ pc[t].at = "written"
    /\ tmp[t] = pc[t].json
    /\ tmp[t].kind = "object"

C11_Step ==
    \/ file' = file
    \/ \E t \in Tasks : FullyWritten(t) /\ file' = tmp[t] /\ pc'[t].at = "done"

C11_AtomicPersist == [][C11_Step]_vars

\* the process was stopped after the temporary file was written and before
\* the rename, and quotes.json still holds the previous content
C11_Witness ==
    /\ ~alive
    /\ \E t \in Tasks : FullyWritten(t) /\ file # tmp[t] /\ file = NoFile

---------------------------------------------------------------------------
(* C12: when the persist step fails inside add_quote or delete_quote, the  *)
(* error reaches the caller: add_quote does not return normally and        *)
(* delete_quote does not return true.                                      *)

\* the call of the task is over and its persist failed
PersistFailed(t) == pc[t].at = "done" /\ pc[t].failed # "none"

C12_ErrorReachesCaller ==
    \A t \in Tasks :
        PersistFailed(t) =>
            /\ pc[t].ret.kind = "raise"
            /\ pc[t].ret # Return(TRUE)

C12_Witness ==
    /\ \E t \in Tasks :
          PersistFailed(t) /\ pc[t].op = "add_quote" /\ pc[t].failed = "write"
    /\ \E t \in Tasks :
          PersistFailed(t) /\ pc[t].op = "delete_quote" /\ pc[t].failed = "replace"

---------------------------------------------------------------------------
(* C13: after a persist that failed at a step after its temporary file was *)
(* created, no temporary file of that persist is left in the data          *)
(* directory when the error reaches the caller.                            *)

C13_NoTempLeft ==
    \A t \in Tasks :
        (PersistFailed(t) /\ pc[t].failed \in {"write", "replace"}) =>
            tmp[t] = Absent

\* a task whose rename failed after the full write, and one whose write failed
C13_Witness ==
    /\ \E t \in Tasks :
          PersistFailed(t) /\ pc[t].failed = "replace" /\ tmp[t] = Absent
    /\ \E t \in Tasks :
          PersistFailed(t) /\ pc[t].failed = "write" /\ tmp[t] = Absent

---------------------------------------------------------------------------
(* C14: whatever the backing file holds (missing, not valid JSON, JSON     *)
(* that is not an object, an object whose "quotes" is missing, null, not a *)
(* list, or a list with elements that are not objects), constructing the   *)
(* store raises nothing, and in each of these wrongly shaped cases the     *)
(* store starts with an empty list and an empty index.                     *)

\* the file is a JSON object whose "quotes" is a list of objects
WellShaped(f) ==
    f.kind = "object" /\ \A i \in DOMAIN f.quotes : "t" \notin DOMAIN f.quotes[i]

C14_LoadNeverRaises ==
    last.op = "__init__" =>
        /\ last.ret.kind = "return"
        /\ ~WellShaped(file) => (cache = <<>> /\ index = {})

---------------------------------------------------------------------------
(* C15: after any sequence of successful adds and deletes, a new store     *)
(* opened on the persisted file has the same record list, field by field   *)
(* and in the same order, ids included, and an index equal to the one      *)
(* rebuilt from that list.                                                 *)

C15_Step ==
    last'.op = "__init__" =>
        /\ Len(cache') = Len(cache)
        /\ \A i \in DOMAIN cache :
              /\ DOMAIN cache'[i] = DOMAIN cache[i]
              /\ \A k \in DOMAIN cache[i] : cache'[i][k] = cache[i][k]
        /\ index' = rebuild_index(cache)

C15_SaveLoadRoundTrip == [][C15_Step]_vars

\* a store reopened on two added records of different groups, the record
\* of id 2 before the record of id 1
C15_Witness ==
    /\ last.op = "__init__"
    /\ Len(cache) = 2
    /\ cache[1].id = Str(<<"2">>) /\ cache[2].id = Str(<<"1">>)
    /\ cache[1].group # cache[2].group
    /\ file = JsonFile(cache)

---------------------------------------------------------------------------
(* C16: no two records of the list have the same id: an add gives the      *)
(* record a fresh id, also when two adds fall in the same millisecond or   *)
(* the added record carries an id that is already stored.                  *)

C16_UniqueIds ==
    \A i \in DOMAIN List, j \in DOMAIN List :
        i # j => List[i].id # List[j].id

---------------------------------------------------------------------------
(* C17: an add of a record whose trimmed text is empty and that has no     *)
(* attachment, or whose author is empty, is refused and leaves the store   *)
(* unchanged, so no stored record has an empty trimmed text without        *)
(* attachment or an empty author.                                          *)

\* the record has no picture attached
NoAttachment(r) == "images" \notin DOMAIN r \/ r.images = <<>>

C17_NoEmptyRecord ==
    \A i \in DOMAIN List :
        /\ ~(Trimmed(List[i].text.v) = <<>> /\ NoAttachment(List[i]))
        /\ List[i].qq.v # <<>>

---------------------------------------------------------------------------
(* C18: every change that add_quote or delete_quote makes to the list and  *)
(* the index happens while the task holds the store's lock, which it keeps *)
(* for the persist of that change.                                         *)

C18_Step ==
    (cache' # cache \/ index' # index \/ quotes' # quotes) =>
        \E t \in Tasks : pc'[t] # pc[t] /\ lock' = t

C18_MutationUnderLock == [][C18_Step]_vars

---------------------------------------------------------------------------
(* C19: for any interleaving of concurrently started adds and deletes that *)
(* are suspended only in their persist, every persist succeeding, once all *)
(* of them have completed the persisted file equals the list in memory,    *)
(* which holds every added record that was not deleted.                    *)

AllDone == \A t \in Tasks : pc[t].at = "done"

IsAddCall(c) == c.op \in {"add_quote", "add"}
IsDeleteCall(c) == c.op \in {"delete_quote", "delete_by_id"}

C19_NoLostUpdate ==
    AllDone =>
        /\ load(File) = List
        /\ \A t \in Tasks :
              IsAddCall(pc[t]) =>
                  \/ pc[t].arg \in Range(List)
                  \/ \E d \in Tasks :
                        /\ IsDeleteCall(pc[d])
                        /\ pc[d].arg = pc[t].arg.id
                        /\ pc[d].ret = Return(TRUE)

\* an add and a delete of the same id have both completed, and the delete
\* ran between the append of the add and its persist: the text that the add
\* serialised no longer holds the added record
C19_Witness ==
    /\ AllDone
    /\ store = "dao"
    /\ pc[1].op = "add_quote" /\ pc[1].ret = Return(None)
    /\ pc[2].op = "delete_quote" /\ pc[2].arg = pc[1].arg.id
    /\ pc[2].ret = Return(TRUE)
    /\ pc[1].arg \notin Range(pc[1].json.quotes)

---------------------------------------------------------------------------
(* C20: get_random, get_random_batch, get_user_quotes and check_exists     *)
(* leave the record list (its elements and their order), the index and the *)
(* persisted file as they were.                                            *)

Queries == {"get_random", "get_random_batch", "get_user_quotes", "check_exists"}

C20_Step ==
    last'.op \in Queries =>
        /\ Len(cache') = Len(cache)
        /\ \A i \in DOMAIN cache : cache'[i] = cache[i]
        /\ index' = index
        /\ file' = file

C20_QueriesReadOnly == [][C20_Step]_vars

\* a batch that returned the two stored records in the reverse of their
\* order in the list, which is still persisted as it is
C20_Witness ==
    /\ last.op = "get_random_batch"
    /\ last.pos = <<2, 1>>
    /\ cache[1] # cache[2]
    /\ file = JsonFile(cache)
    /\ index = rebuild_index(cache)

---------------------------------------------------------------------------
(* C21: the operations that match on group, author or id take a number and *)
(* its decimal string for the same identifier, in the argument and in the  *)
(* stored field alike: a record stored under either form is found by the   *)
(* other.                                                                  *)

\* the same identifier, whether written as a number or as a string
SameIdent(x, y) == x.v = y.v

IdentMatching(list, g, a) ==
    {i \in DOMAIN list :
        /\ IsNone(g) \/ SameIdent(list[i].group, g)
        /\ IsNone(a) \/ SameIdent(list[i].qq, a)}

C21_Step ==
    /\ IsDelete(last') =>
          /\ last'.ret = Return(\E i \in DOMAIN List :
                                   SameIdent(List[i].id, last'.args[1]))
          /\ \A i \in DOMAIN List' : ~SameIdent(List'[i].id, last'.args[1])
    /\ last'.op = "get_user_quotes" =>
          Range(last'.pos) = IdentMatching(cache, last'.args[1], last'.args[2])
    /\ last'.op = "get_random" =>
          IF IdentMatching(cache, last'.args[1], last'.args[2]) = {}
          THEN last'.ret = Return(None)
          ELSE Range(last'.pos) \subseteq
                   IdentMatching(cache, last'.args[1], last'.args[2])

C21_NumberEqualsString == [][C21_Step]_vars

---------------------------------------------------------------------------
(* C22: a stored record with fields the Quote type does not know is loaded *)
(* without error, and every query that selects it returns a Quote built    *)
(* from the known fields only.                                             *)

Selections ==
    {"get_random", "get_random_batch", "get_user_quotes",
     "random_one", "random_one_by_qq"}

\* the fields of the Quote type of the store that was constructed
KnownFields == IF store = "dao" THEN QuoteFields ELSE MainQuoteFields

\* the fields every record must carry
Mandatory == {"id", "qq", "name", "text", "created_by", "created_at"}

\* the quote handed back for the k-th selected record
Handed(k) ==
    IF last.op \in {"get_random", "random_one", "random_one_by_qq"}
    THEN last.ret.val ELSE last.ret.val[k]

C22_ExtraFieldsIgnored ==
    (/\ last.op \in Selections
     /\ \A k \in DOMAIN last.pos : KnownFields \subseteq DOMAIN List[last.pos[k]])
    => /\ last.ret.kind = "return"
       /\ \A k \in DOMAIN last.pos :
             /\ DOMAIN Handed(k) = KnownFields
             /\ \A f \in KnownFields : Handed(k)[f] = List[last.pos[k]][f]

---------------------------------------------------------------------------
(* C23: a stored record that lacks an optional field (group, provenance    *)
(* note, attachments) is loaded without error, and every query that        *)
(* selects it returns a Quote whose missing field has the empty value of   *)
(* its type.                                                               *)

\* the empty value of an optional field
Empty(f) ==
    IF f = "images" THEN <<>> ELSE IF f = "ai_reason" THEN None ELSE Str(<<>>)

C23_MissingFieldsDefault ==
    (/\ last.op \in Selections
     /\ \A k \in DOMAIN last.pos :
           /\ Mandatory \subseteq DOMAIN List[last.pos[k]]
           /\ DOMAIN List[last.pos[k]] \subseteq KnownFields)
    => /\ last.ret.kind = "return"
       /\ \A k \in DOMAIN last.pos :
             /\ DOMAIN Handed(k) = KnownFields
             /\ \A f \in KnownFields :
                   Handed(k)[f] = IF f \in DOMAIN List[last.pos[k]]
                                  THEN List[last.pos[k]][f] ELSE Empty(f)

---------------------------------------------------------------------------
(* C25: the upload command never stores a quote attributed to a            *)
(* blacklisted QQ: however the author was resolved (parameter, @mention,   *)
(* uploader of a picture, sender of the replied-to message), when the      *)
(* final author is in the configured blacklist, store.add is not called    *)
(* and the store is unchanged.                                             *)

\* the QQ number is listed in the configured blacklist
Listed(qq) ==
    IF config.blacklist.t = "list"
    THEN \E i \in DOMAIN config.blacklist.v : Trimmed(config.blacklist.v[i].v) = qq
    ELSE IF config.blacklist.t = "str"
    THEN \E tok \in Split(config.blacklist.v, {";"}) : Trimmed(tok) = qq
    ELSE FALSE

C25_Step ==
    last'.op = "QuotesPlugin.add_quote" =>
        \/ quotes' = quotes /\ qfile' = qfile
        \/ /\ Len(quotes') = Len(quotes) + 1
           /\ ~Listed(quotes'[Len(quotes')].qq.v)

C25_BlacklistedNotStored == [][C25_Step]_vars

\* an upload was refused because the @mention names a blacklisted QQ, while
\* the replied-to sender and the uploader are not blacklisted; the store
\* holds what an earlier upload put there
C25_Witness ==
    /\ last.op = "QuotesPlugin.add_quote"
    /\ last.ret = Return("blacklisted")
    /\ last.args[1].mention = Str(Black)
    /\ last.args[1].reply_qq = Str(White)
    /\ last.args[1].sender = Str(White)
    /\ Len(quotes) = 1
    /\ qfile = JsonFile(quotes)

---------------------------------------------------------------------------
(* C24: when a permitted user replies to a quote message the bot sent and  *)
(* sends the delete command, the quote removed from the store is the quote *)
(* of the replied-to message, whatever random sends, after-sent hooks and  *)
(* deletes came before in the session.                                     *)

C24_Step ==
    (/\ last'.op = "QuotesPlugin.delete_quote"
     /\ RepliesToSent(last'.args[1])
     /\ \E i \in DOMAIN quotes : quotes[i].id.v = last'.args[1].reply.v)
    => quotes' = Select(quotes, {i \in DOMAIN quotes :
                                    quotes[i].id.v # last'.args[1].reply.v})

C24_DeletesRepliedQuote == [][C24_Step]_vars

---------------------------------------------------------------------------
(* C29: with global mode off, a delete command issued in one session never *)
(* removes a quote whose group is the isolation key of another session,    *)
(* for any interleaving of uploads, random sends, hooks and deletes.       *)

C29_Step ==
    (last'.op = "QuotesPlugin.delete_quote" /\ ~config.global_mode)
    => \A i \in DOMAIN quotes :
          quotes[i].group.v # group_key(last'.args[1])
              => Cardinality({j \in DOMAIN quotes' : quotes'[j] = quotes[i]})
                    = Cardinality({j \in DOMAIN quotes : quotes[j] = quotes[i]})

C29_SessionIsolation == [][C29_Step]_vars

---------------------------------------------------------------------------
(* C30: when the after-sent hook runs for a session with a pending id, the *)
(* pending entry is removed and the last-sent id of the session becomes    *)
(* that id; with no pending id the last-sent id stays; the pending and     *)
(* last-sent ids of every other session stay.                              *)

C30_Step ==
    last'.op = "on_after_message_sent" =>
        LET key == session_key(last'.args[1])
        IN /\ pending_qid'[key] = None
           /\ last_sent_qid'[key] = IF pending_qid[key] # None
                                     THEN pending_qid[key]
                                     ELSE last_sent_qid[key]
           /\ \A k \in SessionKeys \ {key} :
                 /\ pending_qid'[k] = pending_qid[k]
                 /\ last_sent_qid'[k] = last_sent_qid[k]

C30_HookMovesPending == [][C30_Step]_vars

\* the hook of chat "a" has replaced an older last-sent id by the pending
\* one, while chat "b" still has its pending id and no last-sent id
C30_Witness ==
    /\ last.op = "on_after_message_sent"
    /\ session_key(last.args[1]) = <<"a">>
    /\ pending_qid[<<"a">>] = None
    /\ last_sent_qid[<<"a">>] # None
    /\ <<<<"a">>, last_sent_qid[<<"a">>]>> \in sent
    /\ Cardinality({m \in sent : m[1] = <<"a">>}) = 2
    /\ pending_qid[<<"b">>] # None
    /\ last_sent_qid[<<"b">>] = None

---------------------------------------------------------------------------
(* C26: the delete command calls delete_by_id only when the sender meets   *)
(* the configured delete_permission level: the member level admits anyone; *)
(* the bot-admin level only bot admins; the admin level group admins, the  *)
(* group owner and bot admins; the owner level the group owner and bot     *)
(* admins; outside a group chat, and for a value that names no level, only *)
(* bot admins.  A sender who does not meet the level never changes the     *)
(* store.  The rules are read in this order, so the member level admits    *)
(* anyone in a private chat as well.                                       *)

\* the configured value without its blanks, the admin level when unset
Configured ==
    IF config.delete_permission = None \/ config.delete_permission.v = <<>>
    THEN <<"a", "d", "m", "i", "n">>
    ELSE SelectSeq(config.delete_permission.v, LAMBDA c : c # " ")

InGroupChat(e) == e.group_id # None
IsBotAdmin(e) == e.is_admin
IsGroupOwner(e) ==
    /\ InGroupChat(e) /\ e.group # None
    /\ e.group.group_owner # None
    /\ e.group.group_owner.v = e.sender.v
IsGroupAdmin(e) ==
    /\ InGroupChat(e) /\ e.group # None
    /\ \E i \in DOMAIN e.group.group_admins : e.group.group_admins[i].v = e.sender.v

MeetsLevel(e) ==
    CASE Configured = <<"m", "e", "m", "b", "e", "r">> -> TRUE
      [] Configured = <<"b", "o", "t", "_", "a", "d", "m", "i", "n">> -> IsBotAdmin(e)
      [] Configured = <<"a", "d", "m", "i", "n">> ->
            IsGroupAdmin(e) \/ IsGroupOwner(e) \/ IsBotAdmin(e)
      [] Configured = <<"o", "w", "n", "e", "r">> -> IsGroupOwner(e) \/ IsBotAdmin(e)
      [] OTHER -> IsBotAdmin(e)

C26_Step ==
    (last'.op = "QuotesPlugin.delete_quote" /\ ~MeetsLevel(last'.args[1]))
    => /\ last'.ret = Return("denied")
       /\ quotes' = quotes /\ qfile' = qfile

C26_DeleteNeedsPermission == [][C26_Step]_vars

\* at the owner level a group admin who is neither owner nor bot admin has
\* replied to a message after a quote was sent in the chat, and was denied:
\* both quotes are still stored
C26_Witness ==
    /\ last.op = "QuotesPlugin.delete_quote"
    /\ Configured = <<"o", "w", "n", "e", "r">>
    /\ IsGroupAdmin(last.args[1])
    /\ ~IsGroupOwner(last.args[1]) /\ ~IsBotAdmin(last.args[1])
    /\ last.args[1].reply # None
    /\ last_sent_qid[session_key(last.args[1])] # None
    /\ last.ret = Return("denied")
    /\ quotes = <<GroupQuote, PrivateQuote>>

---------------------------------------------------------------------------
(* C27: add_quote makes no duplicate check of its own: a caller that saw   *)
(* check_exists say false and was suspended before its add_quote still     *)
(* stores the record, so two such callers for the same (group, text) leave *)
(* two records with one dedup key in the list.                             *)

DedupKey(d) == <<d.group.v, Trimmed(d.text.v)>>

C27_Step ==
    \A t \in Tasks :
        (pc[t].at = "checked" /\ pc'[t].at # "checked")
        => /\ cache' = Append(cache, asdict(pc[t].arg))
           /\ pc'[t].at = "save"

C27_AddDoesNotRecheck == [][C27_Step]_vars

\* both callers saw false, both adds are persisted, and the list and the
\* file hold two records with one dedup key
C27_Witness ==
    /\ \A t \in Tasks : pc[t].at = "done" /\ pc[t].op = "add_quote"
    /\ Len(cache) >= 2
    /\ DedupKey(cache[1]) = DedupKey(cache[2])
    /\ load(file) = cache

---------------------------------------------------------------------------
(* C28: when the persist step of add_quote or delete_quote fails, the      *)
(* record list and the duplicate index in memory are as before the call,   *)
(* so that memory still equals the persisted file once no call is running. *)

NoCallRunning == \A t \in Tasks : pc[t].at \in {"idle", "done"}

C28_FailedPersistRollsBack ==
    (alive /\ NoCallRunning /\ \E t \in Tasks : PersistFailed(t))
    => /\ load(file) = cache
       /\ index = rebuild_index(cache)

=============================================================================
